---- MODULE Spec2Model ----
(***************************************************************************)
(* A model of deps-docs (src/src/bin.ts): the manifest is read, the keys   *)
(* of dependencies and devDependencies are merged, and for each key the    *)
(* README.md and the license files of node_modules/<key> are copied to     *)
(* <outdir>/<key>.  The file system is part of the state; every file       *)
(* operation may fail for a reason the file system shows (a directory      *)
(* where a file is expected, a file where a directory is expected) or,     *)
(* where the environment is faulty, for a reason it does not show          *)
(* (EACCES, EIO).                                                          *)
(***************************************************************************)
EXTENDS Integers, Sequences, FiniteSets, TLC

VARIABLES
    pc,            \* position in extractNpmReadmes: "start", "loop", "done"
    manifest,      \* <cwd>/package.json: [kind, dependencies, devDependencies]
    options,       \* CliOptions: [outdir, verbose]
    nocase,        \* the platform of the run: TRUE on Windows and macOS
    faulty,        \* whether file operations may fail for reasons outside fs
    fs,            \* the file system: [dirs, files]
    pending,       \* the keys of allDependencies the loop has not reached yet
    copiedCount,   \* bin.ts:139
    skippedCount,  \* bin.ts:140
    stdout,        \* lines written by console.log
    stderr,        \* lines written by console.error
    exitCode,      \* the status the process ends with
    calls,         \* history: the result of each processDependency call so far
    startFs,       \* history: the file system when the current run started
    history        \* history: [start, end, exitCode] of each earlier run

vars == <<pc, manifest, options, nocase, faulty, fs, pending, copiedCount,
          skippedCount, stdout, stderr, exitCode, calls, startFs, history>>

---------------------------------------------------------------------------
(* Bounds *)

\* Longest file content, in bytes.
MaxContentLen == 3

\* Number of runs of the tool over the same file system.
MaxRuns == 2

---------------------------------------------------------------------------
(* Paths: a path is the sequence of its segments from the root; a package  *)
(* name or an outdir option is the sequence of the segments between its    *)
(* "/" separators.                                                         *)

Last(s) == s[Len(s)]

Front(s) == SubSeq(s, 1, Len(s) - 1)

IsPrefix(p, q) == Len(p) <= Len(q) /\ SubSeq(q, 1, Len(p)) = p

Prefixes(p) == {SubSeq(p, 1, n) : n \in 0..Len(p)}

RECURSIVE NormalizeFrom(_, _)
NormalizeFrom(stack, rest) ==
    IF rest = <<>> THEN stack
    ELSE LET s == Head(rest) IN
         CASE s = "." \/ s = "" -> NormalizeFrom(stack, Tail(rest))
           [] s = ".." ->
                NormalizeFrom(IF stack = <<>> THEN <<>> ELSE Front(stack), Tail(rest))
           [] OTHER -> NormalizeFrom(Append(stack, s), Tail(rest))

\* path.join of an absolute path and a relative one: concatenate, normalize.
join(a, b) == NormalizeFrom(<<>>, a \o b)

\* process.cwd()
projectRoot == <<"proj">>

---------------------------------------------------------------------------
(* readFile(path, "utf-8") and writeFile(path, text, "utf-8"): the UTF-8   *)
(* decoder replaces every ill-formed sequence by U+FFFD, the encoder       *)
(* writes each code point's UTF-8 form.                                    *)

ReplacementChar == 65533

RECURSIVE Utf8DecodeFrom(_, _, _, _, _)
Utf8DecodeFrom(bytes, need, cp, lo, hi) ==
    IF bytes = <<>> THEN (IF need = 0 THEN <<>> ELSE <<ReplacementChar>>)
    ELSE LET b == Head(bytes)
             rest == Tail(bytes)
         IN IF need = 0 THEN
                CASE b <= 127 -> <<b>> \o Utf8DecodeFrom(rest, 0, 0, 128, 191)
                  [] b >= 194 /\ b <= 223 -> Utf8DecodeFrom(rest, 1, b % 32, 128, 191)
                  [] b >= 224 /\ b <= 239 ->
                       Utf8DecodeFrom(rest, 2, b % 16,
                                      IF b = 224 THEN 160 ELSE 128,
                                      IF b = 237 THEN 159 ELSE 191)
                  [] b >= 240 /\ b <= 244 ->
                       Utf8DecodeFrom(rest, 3, b % 8,
                                      IF b = 240 THEN 144 ELSE 128,
                                      IF b = 244 THEN 143 ELSE 191)
                  [] OTHER -> <<ReplacementChar>> \o Utf8DecodeFrom(rest, 0, 0, 128, 191)
            ELSE IF b < lo \/ b > hi THEN
                \* the byte is not a continuation: U+FFFD, and the byte is read again
                <<ReplacementChar>> \o Utf8DecodeFrom(bytes, 0, 0, 128, 191)
            ELSE IF need = 1 THEN
                <<cp * 64 + (b % 64)>> \o Utf8DecodeFrom(rest, 0, 0, 128, 191)
            ELSE Utf8DecodeFrom(rest, need - 1, cp * 64 + (b % 64), 128, 191)

Utf8Decode(bytes) == Utf8DecodeFrom(bytes, 0, 0, 128, 191)

EncodeCodePoint(c) ==
    IF c < 128 THEN <<c>>
    ELSE IF c < 2048 THEN <<192 + (c \div 64), 128 + (c % 64)>>
    ELSE IF c < 65536 THEN
        <<224 + (c \div 4096), 128 + ((c \div 64) % 64), 128 + (c % 64)>>
    ELSE <<240 + (c \div 262144), 128 + ((c \div 4096) % 64),
           128 + ((c \div 64) % 64), 128 + (c % 64)>>

RECURSIVE Utf8Encode(_)
Utf8Encode(text) ==
    IF text = <<>> THEN <<>>
    ELSE EncodeCodePoint(Head(text)) \o Utf8Encode(Tail(text))

---------------------------------------------------------------------------
(* The file system.  dirs is the set of directories, files maps the path   *)
(* of each regular file to its bytes.                                      *)

Exists(f, p) == p \in f.dirs \/ p \in DOMAIN f.files

\* access(filePath)
access(f, p, fault) == [ok |-> ~fault /\ Exists(f, p)]

\* mkdir(path, { recursive: true })
mkdir(f, p, fault) ==
    IF fault \/ \E q \in Prefixes(p) : q \in DOMAIN f.files
    THEN [ok |-> FALSE, fs |-> f, made |-> {}]
    ELSE [ok |-> TRUE,
          fs |-> [f EXCEPT !.dirs = @ \cup Prefixes(p)],
          made |-> Prefixes(p) \ f.dirs]

\* readFile(path, "utf-8")
readFile(f, p, fault) ==
    IF fault \/ p \notin DOMAIN f.files
    THEN [ok |-> FALSE, text |-> <<>>]
    ELSE [ok |-> TRUE, text |-> Utf8Decode(f.files[p])]

\* Mutant of writeFile: the file is opened for appending.
writeFileAppends(f, p, text, fault) ==
    IF fault \/ p = <<>> \/ p \in f.dirs \/ Front(p) \notin f.dirs
    THEN [ok |-> FALSE, fs |-> f]
    ELSE [ok |-> TRUE,
          fs |-> [f EXCEPT !.files =
                     [q \in DOMAIN f.files \cup {p} |->
                         IF q # p THEN f.files[q]
                         ELSE IF p \in DOMAIN f.files
                         THEN f.files[p] \o Utf8Encode(text)
                         ELSE Utf8Encode(text)]]]

\* writeFile(path, text, "utf-8"): creates the file or replaces its content
writeFile(f, p, text, fault) ==
    IF fault \/ p = <<>> \/ p \in f.dirs \/ Front(p) \notin f.dirs
    THEN [ok |-> FALSE, fs |-> f]
    ELSE [ok |-> TRUE,
          fs |-> [f EXCEPT !.files =
                     [q \in DOMAIN f.files \cup {p} |->
                         IF q = p THEN Utf8Encode(text) ELSE f.files[q]]]]

\* The names of the immediate children of directory d.
Children(f, d) ==
    {Last(p) : p \in {q \in f.dirs \cup DOMAIN f.files :
                          Len(q) = Len(d) + 1 /\ IsPrefix(d, q)}}

---------------------------------------------------------------------------
(* glob("licen[cs]e*", { cwd: packageDir }).  A file name is matched       *)
(* character by character; the match ignores case only where the platform  *)
(* makes glob case-insensitive (bin.ts passes no nocase option).           *)

\* The entry names of the model, in the order a directory lists them.
EntryOrder ==
    <<"README.md", "LICENSE", "license.md", "Licence.txt", "licenses",
      "license", "unlicense", "sub">>

Chars(name) ==
    CASE name = "README.md"   -> <<"R", "E", "A", "D", "M", "E", ".", "m", "d">>
      [] name = "LICENSE"     -> <<"L", "I", "C", "E", "N", "S", "E">>
      [] name = "license.md"  -> <<"l", "i", "c", "e", "n", "s", "e", ".", "m", "d">>
      [] name = "Licence.txt" -> <<"L", "i", "c", "e", "n", "c", "e", ".", "t", "x", "t">>
      [] name = "licenses"    -> <<"l", "i", "c", "e", "n", "s", "e", "s">>
      [] name = "license"     -> <<"l", "i", "c", "e", "n", "s", "e">>
      [] name = "unlicense"   -> <<"u", "n", "l", "i", "c", "e", "n", "s", "e">>
      [] name = "sub"         -> <<"s", "u", "b">>
      [] name = "a"           -> <<"a">>
      [] name = "b"           -> <<"b">>
      [] name = "@s"          -> <<"@", "s">>
      [] name = "proj"        -> <<"p", "r", "o", "j">>
      [] name = "docs-deps"   -> <<"d", "o", "c", "s", "-", "d", "e", "p", "s">>
      [] name = "docs"        -> <<"d", "o", "c", "s">>
      [] name = "out"         -> <<"o", "u", "t">>
      [] name = "node_modules" ->
             <<"n", "o", "d", "e", "_", "m", "o", "d", "u", "l", "e", "s">>

UpperLetters ==
    <<"A", "B", "C", "D", "E", "F", "G", "H", "I", "J", "K", "L", "M",
      "N", "O", "P", "Q", "R", "S", "T", "U", "V", "W", "X", "Y", "Z">>

LowerLetters ==
    <<"a", "b", "c", "d", "e", "f", "g", "h", "i", "j", "k", "l", "m",
      "n", "o", "p", "q", "r", "s", "t", "u", "v", "w", "x", "y", "z">>

ToLower(c) ==
    IF \E i \in DOMAIN UpperLetters : UpperLetters[i] = c
    THEN LowerLetters[CHOOSE i \in DOMAIN UpperLetters : UpperLetters[i] = c]
    ELSE c

\* The pattern of bin.ts:49, token by token: the set of characters a position
\* accepts, or Star for "*".
Star == {}

LicensePattern ==
    <<{"l"}, {"i"}, {"c"}, {"e"}, {"n"}, {"c", "s"}, {"e"}, Star>>

RECURSIVE GlobMatch(_, _, _)
GlobMatch(pat, str, nc) ==
    IF pat = <<>> THEN str = <<>>
    ELSE IF Head(pat) = Star THEN
        \/ GlobMatch(Tail(pat), str, nc)
        \/ str # <<>> /\ GlobMatch(pat, Tail(str), nc)
    ELSE /\ str # <<>>
         /\ \/ Head(str) \in Head(pat)
            \/ nc /\ ToLower(Head(str)) \in {ToLower(c) : c \in Head(pat)}
         /\ GlobMatch(Tail(pat), Tail(str), nc)

---------------------------------------------------------------------------
(* bin.ts:37-56 *)

fileExists(f, filePath, fault) == access(f, filePath, fault).ok

\* fault: glob throws, and the catch returns no file.
getLicenseFiles(f, packageDir, nc, fault) ==
    IF fault THEN <<>>
    ELSE SelectSeq(EntryOrder,
                   LAMBDA n : /\ n \in Children(f, packageDir)
                              /\ GlobMatch(LicensePattern, Chars(n), nc))

---------------------------------------------------------------------------
(* processDependency, bin.ts:66-115.  flt names the operations of this     *)
(* call that fail for a reason the file system does not show:              *)
(* [mkdir, access, glob: BOOLEAN, read, write: sets of file names].        *)

NoFault ==
    [mkdir |-> FALSE, access |-> FALSE, glob |-> FALSE, read |-> {}, write |-> {}]

\* Mutant of copyStep: no try around the copy, a failure leaves the call.
copyStepUncaught(acc, file, packageName, packageDir, outputDir, verbose, flt) ==
    LET r == readFile(acc.fs, join(packageDir, <<file>>), file \in flt.read)
        w == writeFile(acc.fs, join(outputDir, <<file>>), r.text, file \in flt.write)
        tried == [acc EXCEPT !.attempted = @ \cup {file}]
    IN IF r.ok /\ w.ok
       THEN [tried EXCEPT
                !.fs = w.fs,
                !.out = IF verbose THEN Append(@, <<"copied", file, packageName>>) ELSE @,
                !.filesCopiedCount = @ + 1,
                !.copied = @ \cup {file},
                !.written = @ \cup {join(outputDir, <<file>>)}]
       ELSE [tried EXCEPT !.threw = TRUE]

\* The try block of bin.ts:82-87 and 99-104 for one file, on the running
\* result acc of the call.
copyStep(acc, file, packageName, packageDir, outputDir, verbose, flt) ==
    LET r == readFile(acc.fs, join(packageDir, <<file>>), file \in flt.read)
        w == writeFile(acc.fs, join(outputDir, <<file>>), r.text, file \in flt.write)
        tried == [acc EXCEPT !.attempted = @ \cup {file}]
    IN IF r.ok /\ w.ok
       THEN [tried EXCEPT
                !.fs = w.fs,
                !.out = IF verbose THEN Append(@, <<"copied", file, packageName>>) ELSE @,
                !.filesCopiedCount = @ + 1,
                !.copied = @ \cup {file},
                !.written = @ \cup {join(outputDir, <<file>>)}]
       ELSE [tried EXCEPT !.err = Append(@, <<"failed", file, packageName>>)]

\* Mutant of copyLicenses: the try is around the loop, not inside it, so the
\* first failure ends the loop.
RECURSIVE copyLicensesStopsAtFailure(_, _, _, _, _, _, _)
copyLicensesStopsAtFailure(acc, licenseFiles, packageName, packageDir, outputDir, verbose, flt) ==
    IF licenseFiles = <<>> THEN acc
    ELSE LET next == copyStep(acc, Head(licenseFiles), packageName, packageDir,
                              outputDir, verbose, flt)
         IN IF Head(licenseFiles) \notin next.copied THEN next
            ELSE copyLicensesStopsAtFailure(next, Tail(licenseFiles), packageName,
                                            packageDir, outputDir, verbose, flt)

\* The loop of bin.ts:95-108
RECURSIVE copyLicenses(_, _, _, _, _, _, _)
copyLicenses(acc, licenseFiles, packageName, packageDir, outputDir, verbose, flt) ==
    IF licenseFiles = <<>> THEN acc
    ELSE copyLicenses(
             copyStep(acc, Head(licenseFiles), packageName, packageDir,
                      outputDir, verbose, flt),
             Tail(licenseFiles), packageName, packageDir, outputDir, verbose, flt)

\* The result of a call that has copied nothing yet, on file system f.
Begun(packageName, f, made) ==
    [threw |-> FALSE, name |-> packageName, fs |-> f,
     filesCopiedCount |-> 0, out |-> <<>>, err |-> <<>>,
     made |-> made, written |-> {}, attempted |-> {},
     copied |-> {}, matched |-> <<>>, licenseStep |-> FALSE]

\* bin.ts:75-114: the README, the license files, the notice, the result
copyFiles(begun, packageName, packageDir, outputDir, verbose, nc, flt) ==
    LET afterReadme ==
            IF fileExists(begun.fs, join(packageDir, <<"README.md">>), flt.access)
            THEN copyStep(begun, "README.md", packageName, packageDir,
                          outputDir, verbose, flt)
            ELSE begun
        licenseFiles == getLicenseFiles(afterReadme.fs, packageDir, nc, flt.glob)
        afterLicenses ==
            copyLicenses([afterReadme EXCEPT !.matched = licenseFiles,
                                             !.licenseStep = TRUE],
                         licenseFiles, packageName, packageDir, outputDir,
                         verbose, flt)
    IN IF afterLicenses.filesCopiedCount = 0 /\ verbose
       THEN [afterLicenses EXCEPT !.out = Append(@, <<"none", packageName>>)]
       ELSE afterLicenses

\* Mutant of processDependency: a package that is not installed is skipped
\* before its output directory is made.
processDependencySkipsAbsent(packageName, outDirPath, verbose, f, nc, flt) ==
    LET packageDir == join(projectRoot, <<"node_modules">> \o packageName)
        outputDir == join(outDirPath, packageName)
        md == mkdir(f, outputDir, flt.mkdir)
    IN IF packageDir \notin f.dirs
       THEN [Begun(packageName, f, {}) EXCEPT
                !.out = IF verbose THEN <<<<"none", packageName>>>> ELSE <<>>]
       ELSE IF ~md.ok THEN [Begun(packageName, f, {}) EXCEPT !.threw = TRUE]
       ELSE copyFiles(Begun(packageName, md.fs, md.made), packageName, packageDir,
                      outputDir, verbose, nc, flt)

processDependency(packageName, outDirPath, verbose, f, nc, flt) ==
    LET packageDir == join(projectRoot, <<"node_modules">> \o packageName)
        outputDir == join(outDirPath, packageName)
        md == mkdir(f, outputDir, flt.mkdir)
    IN IF ~md.ok THEN [Begun(packageName, f, {}) EXCEPT !.threw = TRUE]
       ELSE copyFiles(Begun(packageName, md.fs, md.made), packageName, packageDir,
                      outputDir, verbose, nc, flt)

---------------------------------------------------------------------------
(* extractNpmReadmes and the top-level catch, bin.ts:121-158 *)

Range(s) == {s[i] : i \in DOMAIN s}

\* Mutant of allDependencies: the two key lists are concatenated.
allDependenciesConcat(m) == m.dependencies \o m.devDependencies

\* Object.keys({...dependencies, ...devDependencies}): a key of both is one
\* key, at the place dependencies gives it.
allDependencies(m) ==
    m.dependencies \o SelectSeq(m.devDependencies,
                                LAMBDA k : k \notin Range(m.dependencies))

outDirPath == join(projectRoot, options.outdir)

\* The operations of one processDependency call that can fail for a reason
\* the file system does not show.
Faults(f, packageDir) ==
    IF ~faulty THEN {NoFault}
    ELSE LET readme == Children(f, packageDir) \cap {"README.md"}
             licenses == {n \in Children(f, packageDir) :
                             GlobMatch(LicensePattern, Chars(n), nocase)}
             \* per file: the read fails, the write fails, or neither
             FileFaults(names) ==
                 UNION {{[read |-> r, write |-> w] : w \in SUBSET (names \ r)} :
                           r \in SUBSET names}
         IN {[NoFault EXCEPT !.mkdir = TRUE]}
            \cup {[mkdir |-> FALSE, access |-> FALSE, glob |-> FALSE,
                   read |-> ff.read, write |-> ff.write] :
                      ff \in FileFaults(readme \cup licenses)}
            \cup {[mkdir |-> FALSE, access |-> FALSE, glob |-> TRUE,
                   read |-> ff.read, write |-> ff.write] : ff \in FileFaults(readme)}
            \cup {[mkdir |-> FALSE, access |-> TRUE, glob |-> g,
                   read |-> ff.read, write |-> ff.write] :
                      g \in BOOLEAN, ff \in FileFaults(IF readme = {} THEN {} ELSE licenses)}

Exit(code) ==
    /\ pc' = "done"
    /\ exitCode' = code

\* Mutant of ManifestFails: the catch logs the error and does not exit.
ManifestFailsExitsZero ==
    /\ pc = "start"
    /\ manifest.kind # "object"
    /\ stderr' = Append(stderr, <<"fatal">>)
    /\ Exit(0)
    /\ UNCHANGED <<manifest, options, nocase, faulty, fs, pending, copiedCount,
                   skippedCount, stdout, calls, startFs, history>>

\* bin.ts:123-124, 127 throw; the catch of bin.ts:155-158 logs and exits 1
ManifestFails ==
    /\ pc = "start"
    /\ manifest.kind # "object"
    /\ stderr' = Append(stderr, <<"fatal">>)
    /\ Exit(1)
    /\ UNCHANGED <<manifest, options, nocase, faulty, fs, pending, copiedCount,
                   skippedCount, stdout, calls, startFs, history>>

\* Mutant of NoDependencies: the message is printed whatever verbose is.
NoDependenciesAlwaysLogs ==
    /\ pc = "start"
    /\ manifest.kind = "object"
    /\ allDependencies(manifest) = <<>>
    /\ stdout' = Append(stdout, <<"nodeps">>)
    /\ Exit(0)
    /\ UNCHANGED <<manifest, options, nocase, faulty, fs, pending, copiedCount,
                   skippedCount, stderr, calls, startFs, history>>

\* bin.ts:131-134
NoDependencies ==
    /\ pc = "start"
    /\ manifest.kind = "object"
    /\ allDependencies(manifest) = <<>>
    /\ stdout' = IF options.verbose THEN Append(stdout, <<"nodeps">>) ELSE stdout
    /\ Exit(0)
    /\ UNCHANGED <<manifest, options, nocase, faulty, fs, pending, copiedCount,
                   skippedCount, stderr, calls, startFs, history>>

\* bin.ts:137 throws
MkdirRootFails ==
    /\ pc = "start"
    /\ manifest.kind = "object"
    /\ allDependencies(manifest) # <<>>
    /\ \E fault \in {FALSE, faulty} : ~mkdir(fs, outDirPath, fault).ok
    /\ stderr' = Append(stderr, <<"fatal">>)
    /\ Exit(1)
    /\ UNCHANGED <<manifest, options, nocase, faulty, fs, pending, copiedCount,
                   skippedCount, stdout, calls, startFs, history>>

\* bin.ts:136-142
EnterLoop ==
    /\ pc = "start"
    /\ manifest.kind = "object"
    /\ allDependencies(manifest) # <<>>
    /\ mkdir(fs, outDirPath, FALSE).ok
    /\ fs' = mkdir(fs, outDirPath, FALSE).fs
    /\ pending' = allDependencies(manifest)
    /\ copiedCount' = 0
    /\ skippedCount' = 0
    /\ pc' = "loop"
    /\ UNCHANGED <<manifest, options, nocase, faulty, stdout, stderr, exitCode,
                   calls, startFs, history>>

\* What a call leaves in the history: its result without the file system,
\* and the faults it met.
CallRecord(res, flt) ==
    [k \in (DOMAIN res \ {"fs"}) \cup {"flt"} |-> IF k = "flt" THEN flt ELSE res[k]]

\* One iteration of the loop of bin.ts:142-149.  A call that throws (the
\* mkdir of bin.ts:73 is outside every try) ends the run in the catch of
\* bin.ts:155-158.
ProcessNext ==
    /\ pc = "loop"
    /\ pending # <<>>
    /\ \E flt \in Faults(fs, join(projectRoot, <<"node_modules">> \o Head(pending))) :
          LET res == processDependency(Head(pending), outDirPath, options.verbose,
                                       fs, nocase, flt)
          IN /\ calls' = Append(calls, CallRecord(res, flt))
             /\ fs' = res.fs
             /\ stdout' = stdout \o res.out
             /\ IF res.threw
                THEN /\ stderr' = Append(stderr \o res.err, <<"fatal">>)
                     /\ Exit(1)
                     /\ UNCHANGED <<pending, copiedCount, skippedCount>>
                ELSE /\ stderr' = stderr \o res.err
                     /\ copiedCount' =
                            IF res.filesCopiedCount > 0 THEN copiedCount + 1
                            ELSE copiedCount
                     /\ skippedCount' =
                            IF res.filesCopiedCount > 0 THEN skippedCount
                            ELSE skippedCount + 1
                     /\ pending' = Tail(pending)
                     /\ UNCHANGED <<pc, exitCode>>
    /\ UNCHANGED <<manifest, options, nocase, faulty, startFs, history>>

\* bin.ts:151, and the process ends
PrintSummary ==
    /\ pc = "loop"
    /\ pending = <<>>
    /\ stdout' = Append(stdout, <<"summary", copiedCount, skippedCount, outDirPath>>)
    /\ Exit(0)
    /\ UNCHANGED <<manifest, options, nocase, faulty, fs, pending, copiedCount,
                   skippedCount, stderr, calls, startFs, history>>

\* The tool is started again, on the file system the last run left.
Rerun ==
    /\ pc = "done"
    /\ Len(history) + 1 < MaxRuns
    /\ history' = Append(history, [start |-> startFs, end |-> fs,
                                   exitCode |-> exitCode, stdout |-> stdout])
    /\ startFs' = fs
    /\ pc' = "start"
    /\ pending' = <<>>
    /\ copiedCount' = 0
    /\ skippedCount' = 0
    /\ stdout' = <<>>
    /\ stderr' = <<>>
    /\ exitCode' = 0
    /\ calls' = <<>>
    /\ UNCHANGED <<manifest, options, nocase, faulty, fs>>

---------------------------------------------------------------------------
(* The inputs of a run: the manifest, the options, the platform and the    *)
(* file system the tool is started on.                                     *)

NodeModules == join(projectRoot, <<"node_modules">>)

DefaultOutdir == <<".", "docs-deps">>

\* bin.ts:71
packageDirOf(name) == join(NodeModules, name)

FileEntries ==
    {"README.md", "LICENSE", "license.md", "Licence.txt", "license", "unlicense"}

DirEntries == {"licenses", "sub"}

\* sub/ holds a file named license: a match of the pattern one level down.
NestedEntry == <<"sub", "license">>

Absent == [present |-> FALSE, entries |-> {}]

Holding(entries) == [present |-> TRUE, entries |-> entries]

Index(seq, x) == CHOOSE i \in DOMAIN seq : seq[i] = x

\* The bytes of the installed file `entry` of the i-th package: ASCII text
\* that tells the package and the entry name.
TextOf(i, entry) == <<96 + i, 64 + Index(EntryOrder, entry)>>

PackageDirs(name, shape) ==
    IF ~shape.present THEN {}
    ELSE {join(NodeModules, name)}
         \cup {join(NodeModules, name \o <<e>>) : e \in shape.entries \cap DirEntries}

PackageFiles(name, shape) ==
    IF ~shape.present THEN {}
    ELSE {join(NodeModules, name \o <<e>>) : e \in shape.entries \cap FileEntries}
         \cup (IF "sub" \in shape.entries
               THEN {join(NodeModules, name \o NestedEntry)} ELSE {})

\* The file system holding the project, the packages names[i] with shape
\* shapes[i], and the regular files of `others` (a path -> bytes function).
FileSystem(names, shapes, others) ==
    LET installed == UNION {PackageFiles(names[i], shapes[i]) : i \in DOMAIN names}
        owner(p) == CHOOSE i \in DOMAIN names : p \in PackageFiles(names[i], shapes[i])
        paths == installed \cup DOMAIN others
    IN [dirs |-> UNION {Prefixes(d) :
                     d \in {projectRoot}
                           \cup UNION {PackageDirs(names[i], shapes[i]) : i \in DOMAIN names}
                           \cup {Front(p) : p \in paths}},
        files |-> [p \in paths |->
                      IF p \in DOMAIN others THEN others[p]
                      ELSE TextOf(owner(p), Last(p))]]

\* The sequences over S that hold no element twice: the key lists of a
\* parsed JSON object.
RECURSIVE KeyLists(_)
KeyLists(S) ==
    {<<>>} \cup UNION {{<<x>> \o t : t \in KeyLists(S \ {x})} : x \in S}

ObjectManifests(names) ==
    {[kind |-> "object", dependencies |-> d, devDependencies |-> v] :
        d \in KeyLists(names), v \in KeyLists(names)}

\* package.json missing or unreadable, not JSON, or the JSON value null
BrokenManifests ==
    {[kind |-> k, dependencies |-> <<>>, devDependencies |-> <<>>] :
        k \in {"unreadable", "malformed", "null"}}

InitWith(Manifests, Outdirs, Platforms, FaultModes, FileSystems) ==
    /\ manifest \in Manifests
    /\ options \in [outdir : Outdirs, verbose : BOOLEAN]
    /\ nocase \in Platforms
    /\ faulty \in FaultModes
    /\ fs \in FileSystems
    /\ startFs = fs
    /\ pc = "start"
    /\ pending = <<>>
    /\ copiedCount = 0
    /\ skippedCount = 0
    /\ stdout = <<>>
    /\ stderr = <<>>
    /\ exitCode = 0
    /\ calls = <<>>
    /\ history = <<>>

A == <<"a">>

B == <<"b">>

\* Runs in an environment whose file operations can fail at any time.
Init ==
    InitWith(ObjectManifests({A, B}) \cup BrokenManifests,
             {DefaultOutdir}, {FALSE}, {TRUE},
             {FileSystem(<<A, B>>, <<sa, sb>>, <<>>) :
                 sa \in {Absent, Holding({"README.md"}),
                         Holding({"README.md", "license.md", "license"})},
                 sb \in {Absent, Holding({"license.md", "licenses"})}})

Next ==
    \/ ManifestFails
    \/ NoDependencies
    \/ MkdirRootFails
    \/ EnterLoop
    \/ ProcessNext
    \/ PrintSummary

Spec == Init /\ [][Next]_vars

\* Runs, one after the other, in an environment where a file operation
\* fails only for a reason the file system shows; scoped and "../" package
\* names, the default and a nested output directory, every kind of entry in
\* a package directory, both kinds of platform.
ScopedA == <<"@s", "a">>

Escaping == <<"..", "a">>

InitReliable ==
    InitWith({[kind |-> "object", dependencies |-> d, devDependencies |-> <<>>] :
                 d \in KeyLists({A, ScopedA, Escaping})} \cup BrokenManifests,
             {DefaultOutdir, <<"out", "docs">>},
             BOOLEAN, {FALSE},
             {FileSystem(<<A, ScopedA>>, <<sa, ss>>, o) :
                 sa \in {Absent, Holding({"README.md", "LICENSE"}),
                         Holding(FileEntries \cup DirEntries)},
                 ss \in {Absent, Holding({"README.md", "license"})},
                 o \in {<<>>,
                        [p \in {join(packageDirOf(A), <<"README.md">>)} |-> <<255>>],
                        [p \in {join(projectRoot, DefaultOutdir)} |-> <<35>>],
                        [p \in {join(projectRoot, DefaultOutdir \o <<"@s">>)} |-> <<35>>]}})

NextReliable == Next \/ Rerun

SpecReliable == InitReliable /\ [][NextReliable]_vars

\* One run over a package whose README.md holds any bytes, in an
\* environment whose file operations can fail.
ByteAlphabet == {65, 195, 169, 226, 130, 172, 255}

Contents == UNION {[1..n -> ByteAlphabet] : n \in 0..MaxContentLen}

InitContent ==
    InitWith({[kind |-> "object", dependencies |-> <<A>>, devDependencies |-> <<>>]},
             {DefaultOutdir}, {FALSE}, {TRUE},
             {FileSystem(<<A>>, <<Holding({})>>,
                         [p \in {join(packageDirOf(A), <<"README.md">>)} |-> c]) :
                 c \in Contents})

NextContent ==
    \/ MkdirRootFails
    \/ EnterLoop
    \/ ProcessNext
    \/ PrintSummary

SpecContent == InitContent /\ [][NextContent]_vars

---------------------------------------------------------------------------
(* Properties *)

Done == pc = "done"

\* The merged dependency set, read off the manifest.
MergedNames == Range(manifest.dependencies) \cup Range(manifest.devDependencies)

SummaryLine == <<"summary", copiedCount, skippedCount, outDirPath>>

\* The part of the file system under directory d.
Tree(f, d) ==
    [dirs |-> {q \in f.dirs : IsPrefix(d, q)},
     files |-> [q \in {r \in DOMAIN f.files : IsPrefix(d, r)} |-> f.files[q]]]

SummaryPrinted == \E i \in DOMAIN stdout : stdout[i][1] = "summary"

\* The mkdir of bin.ts:73 failed in call c.
OutputDirFailed(c) == c.threw /\ c.attempted = {} /\ ~c.licenseStep

\* C1 as claimed: whatever fails inside processDependency, the run goes on
\* to the other packages, prints the summary and does not exit with 1.
C1_NoPackageFailureIsFatal ==
    (Done /\ calls # <<>>) =>
        /\ exitCode = 0
        /\ Len(calls) = Cardinality(MergedNames)
        /\ SummaryPrinted

\* C1 as amended: a failure of the access, the reads, the writes or the glob
\* of a call is never fatal (every package is processed, the summary is
\* printed, the exit code is 0); a call ends the run with exit code 1 and
\* without summary exactly when it cannot create <outdir>/<name>.
C1_OnlyOutputDirFailureIsFatal ==
    (Done /\ calls # <<>>) =>
        /\ \A i \in 1..(Len(calls) - 1) : ~calls[i].threw
        /\ \A i \in DOMAIN calls : calls[i].threw => OutputDirFailed(calls[i])
        /\ IF Last(calls).threw
           THEN exitCode = 1 /\ ~SummaryPrinted /\ Last(stderr) = <<"fatal">>
           ELSE /\ exitCode = 0
                /\ Len(calls) = Cardinality(MergedNames)
                /\ Last(stdout) = SummaryLine

\* A run whose first call met failing reads, writes and glob, and which
\* still processed the second package and ended with the summary.
C1_Witness ==
    /\ Done
    /\ exitCode = 0
    /\ Len(calls) = 2
    /\ calls[1].flt.glob
    /\ calls[1].err # <<>>
    /\ Last(stdout) = SummaryLine

\* C2 as claimed: a manifest that cannot be read or parsed ends the run with
\* exit code 1, the error logged, nothing created and no package processed;
\* every other run exits with 0.
C2_ExitCodeFollowsManifest ==
    Done =>
        IF manifest.kind # "object"
        THEN exitCode = 1 /\ stderr = <<<<"fatal">>>> /\ fs = startFs /\ calls = <<>>
        ELSE exitCode = 0

\* C2 as amended: as claimed for the manifest that cannot be read or parsed
\* (the JSON value null included); a run whose manifest is parsed exits with
\* 1 exactly when the output root or a package's output directory cannot be
\* created, and with 0 otherwise.
C2_ExitCode ==
    Done =>
        IF manifest.kind # "object"
        THEN exitCode = 1 /\ stderr = <<<<"fatal">>>> /\ fs = startFs /\ calls = <<>>
        ELSE /\ exitCode \in {0, 1}
             /\ exitCode = 1 <=>
                   /\ MergedNames # {}
                   /\ \/ calls = <<>>
                      \/ OutputDirFailed(Last(calls))

C2_Witness ==
    /\ Done
    /\ manifest.kind = "malformed"
    /\ exitCode = 1
    /\ stderr = <<<<"fatal">>>>

\* C3 as claimed: after the run every name of the merged set has its output
\* directory.
C3_EveryNameHasOutputDir ==
    Done => \A n \in MergedNames : join(outDirPath, n) \in fs.dirs

\* C3 as amended: every name whose call returned has its output directory,
\* installed or not, copied or not; after a run that ends with exit code 0
\* that is every name of the merged set.
C3_EveryNameHasOutputDirOnSuccess ==
    /\ \A i \in DOMAIN calls :
          ~calls[i].threw => join(outDirPath, calls[i].name) \in fs.dirs
    /\ (Done /\ exitCode = 0) =>
          \A n \in MergedNames : join(outDirPath, n) \in fs.dirs

\* A package that is not installed has an empty output directory.
C3_Witness ==
    /\ Done
    /\ exitCode = 0
    /\ \E n \in MergedNames :
          /\ packageDirOf(n) \notin startFs.dirs
          /\ join(outDirPath, n) \in fs.dirs
          /\ Children(fs, join(outDirPath, n)) = {}

\* C6: at the summary every name of the merged set has been processed once,
\* copied counts the names whose call copied a file, skipped the names whose
\* call copied none, and the two add up to the size of the merged set.
C6_EachNameOnce ==
    (Done /\ SummaryPrinted) =>
        /\ Len(calls) = Cardinality(MergedNames)
        /\ {calls[i].name : i \in DOMAIN calls} = MergedNames
        /\ copiedCount = Cardinality({i \in DOMAIN calls : calls[i].filesCopiedCount > 0})
        /\ skippedCount = Cardinality({i \in DOMAIN calls : calls[i].filesCopiedCount = 0})
        /\ copiedCount + skippedCount = Cardinality(MergedNames)
        /\ Last(stdout) = SummaryLine

\* A name of both lists, one package copied and one skipped.
C6_Witness ==
    /\ Done
    /\ SummaryPrinted
    /\ Range(manifest.dependencies) \cap Range(manifest.devDependencies) # {}
    /\ copiedCount = 1
    /\ skippedCount = 1

\* C7: with an empty merged set the run creates nothing, processes no
\* package, prints no summary and ends with exit code 0; it prints one
\* line if verbose and nothing otherwise.
C7_EmptyManifest ==
    (Done /\ manifest.kind = "object" /\ MergedNames = {}) =>
        /\ fs = startFs
        /\ calls = <<>>
        /\ exitCode = 0
        /\ stderr = <<>>
        /\ stdout = IF options.verbose THEN <<<<"nodeps">>>> ELSE <<>>

C7_Witness ==
    /\ Done
    /\ manifest.kind = "object"
    /\ MergedNames = {}
    /\ options.verbose
    /\ stdout = <<<<"nodeps">>>>

\* C10: in a call that returns, the license step runs whatever happened to
\* the README, every matched license file is attempted, a failing glob
\* gives no match, and the count is the number of files whose read and
\* write both succeeded.
C10_FailuresAreIsolated ==
    \A i \in DOMAIN calls :
        LET c == calls[i]
            dir == packageDirOf(c.name)
        IN ~c.threw =>
              /\ c.licenseStep
              /\ Range(c.matched) \subseteq c.attempted
              /\ c.flt.glob => c.matched = <<>>
              /\ ~c.flt.glob =>
                    Range(c.matched) =
                        {n \in Children(startFs, dir) :
                            GlobMatch(LicensePattern, Chars(n), nocase)}
              /\ "README.md" \in c.attempted <=>
                    (join(dir, <<"README.md">>) \in DOMAIN startFs.files
                     /\ ~c.flt.access)
              /\ c.copied =
                    {n \in c.attempted :
                        /\ n \notin c.flt.read
                        /\ n \notin c.flt.write
                        /\ join(dir, <<n>>) \in DOMAIN startFs.files}
              /\ c.filesCopiedCount = Cardinality(c.copied)
              /\ \A n \in c.copied :
                    join(outDirPath, c.name \o <<n>>) \in DOMAIN fs.files

\* The README fails, the first license file fails, the second is copied.
C10_Witness ==
    \E i \in DOMAIN calls :
        LET c == calls[i]
        IN /\ ~c.threw
           /\ "README.md" \in c.attempted \ c.copied
           /\ Len(c.matched) = 2
           /\ c.matched[1] \notin c.copied
           /\ c.matched[2] \in c.copied
           /\ c.filesCopiedCount = 1

\* The first seven characters of a name, in lower case, are "licence" or
\* "license".
HasLicensePrefix(chars) ==
    /\ Len(chars) >= 7
    /\ [i \in 1..7 |-> ToLower(chars[i])]
          \in {<<"l", "i", "c", "e", "n", "c", "e">>,
               <<"l", "i", "c", "e", "n", "s", "e">>}

\* The names of the regular files that are immediate children of d.
FilesIn(f, d) == {Last(p) : p \in {q \in DOMAIN f.files : Front(q) = d}}

\* C4 as claimed: every file of the package directory whose name starts
\* with "licence" or "license" in any letter case is returned and copied
\* under the same name, and nothing is returned that is not an immediate
\* child with that prefix.
C4_LicensePrefixAnyCase ==
    \A i \in DOMAIN calls :
        LET c == calls[i]
            dir == packageDirOf(c.name)
        IN ~c.threw =>
              /\ \A n \in FilesIn(startFs, dir) :
                    HasLicensePrefix(Chars(n)) =>
                       /\ n \in Range(c.matched)
                       /\ join(outDirPath, c.name \o <<n>>) \in DOMAIN fs.files
              /\ \A n \in Range(c.matched) :
                    n \in Children(startFs, dir) /\ HasLicensePrefix(Chars(n))

\* C5 as claimed: a README.md that was copied holds the bytes of its source.
C5_ReadmeRoundTrip ==
    \A i \in DOMAIN calls :
        LET c == calls[i]
        IN "README.md" \in c.copied =>
              fs.files[join(outDirPath, c.name \o <<"README.md">>)]
                 = startFs.files[join(packageDirOf(c.name), <<"README.md">>)]

\* C8: a run on the file system an earlier run left, with node_modules as
\* the earlier run found it, leaves the output tree as the earlier run did.
C8_Idempotent ==
    (Done /\ history # <<>>) =>
        LET prev == Last(history)
        IN Tree(startFs, NodeModules) = Tree(prev.start, NodeModules) =>
              /\ Tree(fs, outDirPath) = Tree(prev.end, outDirPath)
              /\ exitCode = prev.exitCode

\* A second run that copied a file again.
C8_Witness ==
    /\ Done
    /\ history # <<>>
    /\ exitCode = 0
    /\ Tree(startFs, NodeModules) = Tree(Last(history).start, NodeModules)
    /\ \E i \in DOMAIN calls : Cardinality(calls[i].written) >= 2
    /\ Tree(fs, outDirPath) # Tree(Last(history).start, outDirPath)

\* C9 as claimed: every directory made and every file written by a call
\* lies under the output root and under no package's source directory.
C9_MutationsConfined ==
    \A i \in DOMAIN calls :
        \A p \in calls[i].made \cup calls[i].written :
            /\ IsPrefix(outDirPath, p)
            /\ \A n \in MergedNames : ~IsPrefix(packageDirOf(n), p)

====
